---- MODULE Spec2Model ----
(***************************************************************************)
(* Model of proof.py, the Virtua Grotesk print proof generator.            *)
(*                                                                         *)
(* Lengths on the page are kept in tenths of a point, so that the floats   *)
(* of the source (size * 1.3, size * 1.4, ...) are exact integers here.    *)
(* Text widths are kept in thousandths of a point.                         *)
(***************************************************************************)
EXTENDS Integers, Sequences, FiniteSets

VARIABLES
    fontExists,   \* the resolved font path exists on disk
    fault,        \* what is wrong with the font file or the output path
    adv,          \* advance width of the font's glyphs, in 1/1000 em
    fontKeys,     \* keys of the font's best cmap, in the dict's own order
    pc,           \* position in generate_proof / __main__
    calls,        \* the steps of generate_proof executed so far
    handles,      \* TTFont handles opened and not closed
    drawing,      \* "none", "open" or "ended"
    cmap,         \* the value get_cmap returned (keys of the dict)
    doc,          \* the pages of the drawing, in order
    alphaLog,     \* fit-or-split events of alphabet_page
    punctLog,     \* fit-or-split events of numerals_page
    spacingLog,   \* lines drawn by spacing_page
    codepoints,   \* glyph_set_page: sorted(cmap.keys())
    gi,           \* glyph_set_page: codepoints drawn so far (the loop's i)
    gx,           \* glyph_set_page: x of the next cell
    gy,           \* glyph_set_page: y of the next cell
    cells,        \* grid cells drawn by glyph_set_page
    page_num,     \* glyph_set_page: page_num, the value it returns
    arabicLog,    \* samples drawn by arabic_page
    total_pages,  \* db.pageCount() at line 524
    saved,        \* the output file was written
    result,       \* "none", "True", "False"
    exitCode      \* -1 while running, then the process's exit status

vars == <<fontExists, fault, adv, fontKeys, pc, calls, handles, drawing, cmap,
          doc, alphaLog, punctLog, spacingLog, codepoints, gi, gx, gy, cells,
          page_num, arabicLog, total_pages, saved, result, exitCode>>

----------------------------------------------------------------------------
(* Page settings *)

PAGE_WIDTH == 612
PAGE_HEIGHT == 792
MARGIN == 36

\* tenths of a point
T(pt) == pt * 10

\* PAGE_WIDTH - 2 * MARGIN, the width every template fits its lines to
TextBudget == PAGE_WIDTH - 2 * MARGIN

Min(a, b) == IF a < b THEN a ELSE b

Range(s) == {s[i] : i \in 1..Len(s)}

----------------------------------------------------------------------------
(* The inputs of a run *)

\* number of full grid pages the largest character maps fill
MaxGridPages == 2

Block(lo, n) == [i \in 1..n |-> lo + i - 1]
Reverse(s) == [i \in 1..Len(s) |-> s[Len(s) + 1 - i]]

\* glyphs per grid page: 12 columns by 14 rows
GridCells == 12 * 14

Advances == {500, 600, 1200, 4000}

\* one cell short of p full pages, exactly p full pages, and one cell more
\* (that map with its keys in descending order)
GridMaps ==
    {Block(32, p * GridCells + d) : p \in 1..MaxGridPages, d \in {-1, 0}}
    \cup {Reverse(Block(32, p * GridCells + 1)) : p \in 1..MaxGridPages}

ArabicMaps ==
    {Block(1536, n) : n \in {1, 28, 29, 30, 56, 57}}
    \cup {<<1791>>, Block(1760, 32), Block(65, 26) \o Block(1536, 30),
          Reverse(Block(1530, 40))}

SmallMaps ==
    {<<>>, Block(65, 26), Reverse(Block(65, 26)), <<97, 65, 48, 9>>,
     <<65, 128512, 1114111, 4096, 65535, 65536>>}

\* the large maps: whole grid pages, and the whole block U+0600..U+06FF
LargeMaps == GridMaps \cup {Block(1536, 256)}

CmapChoices == LargeMaps \cup ArabicMaps \cup SmallMaps

Faults == {"none", "noName", "noHead", "noCmap", "noUnicodeCmap", "outputUnwritable"}

----------------------------------------------------------------------------
(* The drawing surface: newPage, draw_header, draw_footer, text *)

newPage(d, tmpl) ==
    Append(d, [tmpl |-> tmpl, header |-> "", num |-> 0, footer |-> FALSE,
               body |-> 0, bare |-> FALSE])

draw_header(d, page_title, n) ==
    [d EXCEPT ![Len(d)].header = page_title, ![Len(d)].num = n]

draw_footer(d) ==
    [d EXCEPT ![Len(d)].footer = TRUE]

\* k drawing calls of body content on the current page; bare records that
\* content was drawn while the page had no header or no footer yet
text(d, k) ==
    IF k = 0 THEN d
    ELSE [d EXCEPT ![Len(d)].body = @ + k,
                   ![Len(d)].bare = @ \/ d[Len(d)].header = "" \/ ~d[Len(d)].footer]

\* db.textSize(s)[0] at the given size, in 1/1000 pt, for a font whose glyphs
\* all advance by adv/1000 em
textSize(s, size) == Len(s) * adv * size

TooWide(s, size) == textSize(s, size) > TextBudget * 1000

----------------------------------------------------------------------------
(* Strings are sequences of codepoints *)

uppercase == Block(65, 26)
lowercase == Block(97, 26)

\* .,;:!?"'`-(en dash)(em dash)()[]{}/@#$%^&*+=<>
punctuation ==
    <<46, 44, 59, 58, 33, 63, 34, 39, 96, 45, 8211, 8212, 40, 41, 91, 93, 123, 125, 47, 64, 35, 36, 37, 94, 38, 42, 43, 61, 60, 62>>

----------------------------------------------------------------------------
(* title_page *)

title_page(d) ==
    \* family, style, three specimen lines, six metadata lines
    text(newPage(d, "title"), 11)

----------------------------------------------------------------------------
(* The fit-or-split step of alphabet_page and numerals_page *)

mid_too_far(s) == Len(s) \div 2 + 1

\* mid = len(s) // 2
mid(s) == Len(s) \div 2

\* One line s drawn at cursor y (tenths of a point) in the given size: the
\* lines drawn, each with its cursor, and the cursor after the last of them.
fit_or_split(s, size, y) ==
    IF TooWide(s, size)
    THEN [lines |-> <<[y |-> y, s |-> SubSeq(s, 1, mid(s))],
                      [y |-> y - 13 * size, s |-> SubSeq(s, mid(s) + 1, Len(s))]>>,
          y |-> y - 13 * size]
    ELSE [lines |-> <<[y |-> y, s |-> s]>>, y |-> y]

Event(s, size, r) == [s |-> s, size |-> size, lines |-> r.lines]

RECURSIVE CountLines(_)
CountLines(log) ==
    IF log = <<>> THEN 0 ELSE Len(Head(log).lines) + CountLines(Tail(log))

----------------------------------------------------------------------------
(* alphabet_page *)

alphabet_sizes == <<48, 36, 24, 18, 14, 11, 9>>

RECURSIVE alphabet_loop(_, _, _)
alphabet_loop(i, y, log) ==
    IF i > Len(alphabet_sizes) THEN log
    ELSE LET size == alphabet_sizes[i]
             uc == fit_or_split(uppercase, size, y)
             y1 == uc.y - 13 * size
             lc == fit_or_split(lowercase, size, y1)
             y2 == lc.y - 18 * size
             log2 == log \o <<Event(uppercase, size, uc), Event(lowercase, size, lc)>>
         IN  IF y2 < T(MARGIN + 50) THEN log2 ELSE alphabet_loop(i + 1, y2, log2)

alphabet_page(d) ==
    LET d0 == draw_footer(draw_header(newPage(d, "alphabet"), "Alphabet", 0))
        log == alphabet_loop(1, T(PAGE_HEIGHT - MARGIN - 40), <<>>)
    IN  [doc |-> text(d0, CountLines(log)), log |-> log]

----------------------------------------------------------------------------
(* numerals_page *)

numerals_sizes == <<72, 48, 36, 24, 18, 14>>

RECURSIVE numerals_loop(_, _)
numerals_loop(i, y) ==
    \* for size in sizes[:4]
    IF i > 4 THEN y ELSE numerals_loop(i + 1, y - 15 * numerals_sizes[i])

RECURSIVE punctuation_loop(_, _, _)
punctuation_loop(i, y, log) ==
    \* for size in sizes[2:]
    IF i > Len(numerals_sizes) THEN log
    ELSE LET size == numerals_sizes[i]
             r == fit_or_split(punctuation, size, y)
             y1 == r.y - 15 * size
             log2 == Append(log, Event(punctuation, size, r))
         IN  IF y1 < T(MARGIN + 30) THEN log2 ELSE punctuation_loop(i + 1, y1, log2)

numerals_page(d) ==
    LET d0 == draw_footer(draw_header(newPage(d, "numerals"), "Numerals & Punctuation", 0))
        y0 == T(PAGE_HEIGHT - MARGIN - 50)
        \* "NUMERALS" label and four numeral lines
        y1 == numerals_loop(1, y0 - T(20)) - T(20)
        \* "46, 44, 59, 58, 33, 63, 34, 39, 96, 45, 8211, 8212, 40, 41, 91, 93, 123, 125, 47, 64, 35, 36, 37, 94, 38, 42, 43, 61, 60, 62UATION" label
        log == punctuation_loop(3, y1 - T(20), <<>>)
    IN  [doc |-> text(d0, 1 + 4 + 1 + CountLines(log)), log |-> log]

----------------------------------------------------------------------------
(* waterfall_page, paragraph_page, kerning_page: rows down a single page *)

waterfall_sizes == <<72, 60, 48, 36, 30, 24, 20, 18, 16, 14, 12, 11, 10, 9, 8, 7, 6>>

RECURSIVE waterfall_loop(_, _, _)
waterfall_loop(i, y, rows) ==
    IF i > Len(waterfall_sizes) THEN rows
    ELSE LET y1 == y - 14 * waterfall_sizes[i]
         IN  IF y1 < T(MARGIN + 20) THEN rows + 1 ELSE waterfall_loop(i + 1, y1, rows + 1)

waterfall_page(d) ==
    LET d0 == draw_footer(draw_header(newPage(d, "waterfall"), "Size Waterfall", 0))
    \* a size label and the sample per row
    IN  text(d0, 2 * waterfall_loop(1, T(PAGE_HEIGHT - MARGIN - 40), 0))

paragraph_sizes == <<14, 12, 10, 9, 8>>

RECURSIVE paragraph_loop(_, _, _)
paragraph_loop(i, y, rows) ==
    IF i > Len(paragraph_sizes) THEN rows
    ELSE LET box_height == T(paragraph_sizes[i] * 6)
             y1 == (y - T(14)) - (box_height + T(30))
         IN  IF y1 < T(MARGIN + 80) THEN rows + 1 ELSE paragraph_loop(i + 1, y1, rows + 1)

paragraph_page(d) ==
    LET d0 == draw_footer(draw_header(newPage(d, "paragraph"), "Paragraph Setting", 0))
    \* a label and the text box per size
    IN  text(d0, 2 * paragraph_loop(1, T(PAGE_HEIGHT - MARGIN - 40), 0))

kern_pairs == 8
kerning_size == 24

RECURSIVE kerning_loop(_, _, _)
kerning_loop(i, y, rows) ==
    IF i > kern_pairs THEN rows
    ELSE LET y1 == y - 16 * kerning_size
         IN  IF y1 < T(MARGIN + 30) THEN rows + 1 ELSE kerning_loop(i + 1, y1, rows + 1)

kerning_page_no_new(d) ==
    text(d, kerning_loop(1, T(PAGE_HEIGHT - MARGIN - 50), 0))

kerning_page(d) ==
    LET d0 == draw_footer(draw_header(newPage(d, "kerning"), "Kerning Pairs", 0))
    IN  text(d0, kerning_loop(1, T(PAGE_HEIGHT - MARGIN - 50), 0))

----------------------------------------------------------------------------
(* spacing_page *)

spacing_size == 14

\* c + c.join(list(lowercase)) + c
probe_line(c) ==
    [k \in 1..(2 * Len(lowercase) + 1) |-> IF k % 2 = 1 THEN c ELSE lowercase[k \div 2]]

min_length == 10

truncate_step_3(line) == SubSeq(line, 1, Len(line) - 3)

\* line = line[:-2]
truncate_step(line) == SubSeq(line, 1, Len(line) - 2)

RECURSIVE truncate(_)
truncate(line) ==
    IF TooWide(line, spacing_size) /\ Len(line) > min_length
    THEN truncate(truncate_step(line))
    ELSE line

RECURSIVE spacing_loop(_, _, _, _)
spacing_loop(i, y, d, log) ==
    IF i > Len(lowercase) THEN [doc |-> d, log |-> log]
    ELSE LET line == probe_line(lowercase[i])
             out == IF TooWide(line, spacing_size) THEN truncate(line) ELSE line
             d1 == text(d, 1)
             y1 == y - 14 * spacing_size
             log2 == Append(log, [line |-> line, out |-> out, y |-> y, page |-> Len(d)])
         IN  IF y1 < T(MARGIN + 30)
             THEN spacing_loop(i + 1, T(PAGE_HEIGHT - MARGIN - 40),
                      draw_footer(draw_header(newPage(d1, "spacing"),
                                              "Spacing Proof (continued)", 0)),
                      log2)
             ELSE spacing_loop(i + 1, y1, d1, log2)

spacing_page(d) ==
    spacing_loop(1, T(PAGE_HEIGHT - MARGIN - 40),
                 draw_footer(draw_header(newPage(d, "spacing"), "Spacing Proof", 0)),
                 <<>>)

----------------------------------------------------------------------------
(* glyph_set_page *)

cols == 12
cell_size == T(PAGE_WIDTH - 2 * MARGIN) \div cols
x_start == T(MARGIN)
y_start == T(PAGE_HEIGHT - MARGIN - 50)
start_page == 1

insertion_order(keys) == keys

\* the values of f at 1..n as a list
list(f, n) == SubSeq(f, 1, n)

\* for each key, the number of keys below it
ranks(keys) ==
    [i \in 1..Len(keys) |-> Cardinality({j \in 1..Len(keys) : keys[j] < keys[i]})]

\* the keys, each at the place its rank gives
place_by_rank(keys, below) ==
    [r \in 1..Len(keys) |-> keys[CHOOSE i \in 1..Len(keys) : below[i] = r - 1]]

\* codepoints = sorted(cmap.keys())
sorted(keys) ==
    list(place_by_rank(keys, list(ranks(keys), Len(keys))), Len(keys))

hex_digits == <<"0", "1", "2", "3", "4", "5", "6", "7", "8", "9",
                "A", "B", "C", "D", "E", "F">>

RECURSIVE to_hex(_)
to_hex(n) ==
    IF n < 16 THEN <<hex_digits[n + 1]>>
    ELSE Append(to_hex(n \div 16), hex_digits[(n % 16) + 1])

RECURSIVE zero_pad(_, _)
zero_pad(s, w) == IF Len(s) >= w THEN s ELSE zero_pad(<<"0">> \o s, w)

\* label = f"{cp:04X}"
label(cp) == zero_pad(to_hex(cp), 4)

next_page_no_footer(d, n) ==
    draw_header(newPage(d, "glyph_set"), "Character Set (page N)", n)

\* lines 440-443: the next grid page, with its chrome
next_page(d, n) ==
    draw_footer(draw_header(newPage(d, "glyph_set"), "Character Set (page N)", n))

\* lines 380-398: the first page and the loop's variables
glyph_set_first_page(d) ==
    draw_footer(draw_header(newPage(d, "glyph_set"), "Character Set", 0))

\* lines 400-445: one iteration of the loop, for codepoint cp
glyph_cell(cp, x, y, pn, d) ==
    LET cell == [cp |-> cp, label |-> label(cp), page |-> Len(d), x |-> x, y |-> y]
        \* the cell's rect, its glyph and its label
        d1 == text(d, 3)
        x1 == x + cell_size
    IN  IF x1 + cell_size > T(PAGE_WIDTH - MARGIN)
        THEN LET y1 == y - cell_size
             IN  IF y1 - cell_size < T(MARGIN)
                 THEN [cell |-> cell, x |-> x_start, y |-> y_start,
                       page_num |-> pn + 1, doc |-> next_page(d1, pn + 1)]
                 ELSE [cell |-> cell, x |-> x_start, y |-> y1,
                       page_num |-> pn, doc |-> d1]
        ELSE [cell |-> cell, x |-> x1, y |-> y, page_num |-> pn, doc |-> d1]

----------------------------------------------------------------------------
(* arabic_page *)

arabic_range_start == 1536
arabic_range_stop == 1791

\* arabic_range = range(0x0600, 0x06FF)
arabic_range == Block(arabic_range_start, arabic_range_stop - arabic_range_start)

\* [chr(cp) for cp in arabic_range if cp in cmap]
arabic_chars(keys) == SelectSeq(arabic_range, LAMBDA cp : cp \in Range(keys))

arabic_samples(chars) ==
    <<SubSeq(chars, 1, Min(28, Len(chars))),
      IF Len(chars) > 28 THEN SubSeq(chars, 29, Min(56, Len(chars))) ELSE <<>> >>

arabic_sizes == <<48, 36, 24, 18>>

\* for sample in samples: if sample: draw it and move down
RECURSIVE arabic_samples_loop(_, _, _, _, _)
arabic_samples_loop(samples, j, size, y, log) ==
    IF j > Len(samples) THEN [y |-> y, log |-> log]
    ELSE IF samples[j] # <<>>
         THEN arabic_samples_loop(samples, j + 1, size, y - 15 * size,
                  Append(log, [size |-> size, y |-> y, s |-> samples[j]]))
         ELSE arabic_samples_loop(samples, j + 1, size, y, log)

RECURSIVE arabic_loop(_, _, _, _)
arabic_loop(samples, i, y, log) ==
    IF i > Len(arabic_sizes) THEN log
    ELSE LET r == arabic_samples_loop(samples, 1, arabic_sizes[i], y, log)
             y1 == r.y - T(20)
         IN  IF y1 < T(MARGIN + 50) THEN r.log ELSE arabic_loop(samples, i + 1, y1, r.log)

arabic_page(d, keys) ==
    LET chars == arabic_chars(keys)
    IN  IF chars = <<>> THEN [doc |-> d, log |-> <<>>]
        ELSE LET d0 == draw_footer(draw_header(newPage(d, "arabic"), "Arabic", 0))
                 log == arabic_loop(arabic_samples(chars), 1,
                                    T(PAGE_HEIGHT - MARGIN - 50), <<>>)
             IN  [doc |-> text(d0, Len(log)), log |-> log]

----------------------------------------------------------------------------
(* generate_proof and __main__ *)

Init ==
    /\ \/ /\ fontExists = FALSE
          /\ fault = "none"
          /\ adv = 600
          /\ fontKeys = <<>>
       \/ /\ fontExists = TRUE
          /\ fault \in Faults
          /\ adv \in Advances
          /\ fontKeys \in (IF fault \in {"noCmap", "noUnicodeCmap"}
                           THEN {<<>>} ELSE CmapChoices)
          \* the grid does not depend on the advance width
          /\ fontKeys \in LargeMaps => adv = 600 /\ fault = "none"
    /\ pc = "start"
    /\ calls = <<>>
    /\ handles = 0
    /\ drawing = "none"
    /\ cmap = [is_none |-> TRUE, keys |-> <<>>]
    /\ doc = <<>>
    /\ alphaLog = <<>>
    /\ punctLog = <<>>
    /\ spacingLog = <<>>
    /\ codepoints = <<>>
    /\ gi = 0
    /\ gx = 0
    /\ gy = 0
    /\ cells = <<>>
    /\ page_num = 0
    /\ arabicLog = <<>>
    /\ total_pages = 0
    /\ saved = FALSE
    /\ result = "none"
    /\ exitCode = -1

Inputs == <<fontExists, fault, adv, fontKeys>>
Glyphs == <<codepoints, gi, gx, gy, cells, page_num>>
Logs == <<alphaLog, punctLog, spacingLog, Glyphs, arabicLog>>
Outcome == <<total_pages, saved, result, exitCode>>

exists_always == TRUE

\* font_path.exists()
font_path_exists == fontExists

\* lines 490-495: resolve the paths, return False if the font is missing
CheckFont ==
    /\ pc = "start"
    /\ IF font_path_exists
       THEN pc' = "get_font_info" /\ result' = result
       ELSE pc' = "returned" /\ result' = "False"
    /\ UNCHANGED <<Inputs, Logs, calls, handles, drawing, cmap, doc,
                   total_pages, saved, exitCode>>

\* line 500: TTFont(path), tt['name'], tt['head'], tt.close(); a missing
\* table raises KeyError after the handle was opened
GetFontInfo ==
    /\ pc = "get_font_info"
    /\ calls' = Append(calls, "get_font_info")
    /\ IF ~fontExists
       THEN pc' = "raised" /\ handles' = handles
       ELSE IF fault \in {"noName", "noHead"}
            THEN pc' = "raised" /\ handles' = handles + 1
            ELSE pc' = "get_cmap" /\ handles' = (handles + 1) - 1
    /\ UNCHANGED <<Inputs, Logs, Outcome, drawing, cmap, doc>>

\* line 501: TTFont(path), tt.getBestCmap(), tt.close(); getBestCmap raises
\* KeyError without a cmap table and returns None without a Unicode subtable
GetCmap ==
    /\ pc = "get_cmap"
    /\ calls' = Append(calls, "get_cmap")
    /\ IF fault = "noCmap"
       THEN pc' = "raised" /\ handles' = handles + 1 /\ cmap' = cmap
       ELSE /\ pc' = "newDrawing"
            /\ handles' = (handles + 1) - 1
            /\ cmap' = [is_none |-> fault = "noUnicodeCmap", keys |-> fontKeys]
    /\ UNCHANGED <<Inputs, Logs, Outcome, drawing, doc>>

\* line 508
NewDrawing ==
    /\ pc = "newDrawing"
    /\ calls' = Append(calls, "newDrawing")
    /\ drawing' = "open"
    /\ doc' = <<>>
    /\ pc' = "title_page"
    /\ UNCHANGED <<Inputs, Logs, Outcome, handles, cmap>>

\* line 513
TitlePage ==
    /\ pc = "title_page"
    /\ calls' = Append(calls, "title_page")
    /\ doc' = title_page(doc)
    /\ pc' = "alphabet_page"
    /\ UNCHANGED <<Inputs, Logs, Outcome, handles, drawing, cmap>>

\* line 514
AlphabetPage ==
    /\ pc = "alphabet_page"
    /\ calls' = Append(calls, "alphabet_page")
    /\ LET r == alphabet_page(doc) IN doc' = r.doc /\ alphaLog' = r.log
    /\ pc' = "numerals_page"
    /\ UNCHANGED <<Inputs, Outcome, handles, drawing, cmap,
                   punctLog, spacingLog, Glyphs, arabicLog>>

\* line 515
NumeralsPage ==
    /\ pc = "numerals_page"
    /\ calls' = Append(calls, "numerals_page")
    /\ LET r == numerals_page(doc) IN doc' = r.doc /\ punctLog' = r.log
    /\ pc' = "waterfall_page"
    /\ UNCHANGED <<Inputs, Outcome, handles, drawing, cmap,
                   alphaLog, spacingLog, Glyphs, arabicLog>>

\* line 516
WaterfallPage ==
    /\ pc = "waterfall_page"
    /\ calls' = Append(calls, "waterfall_page")
    /\ doc' = waterfall_page(doc)
    /\ pc' = "spacing_page"
    /\ UNCHANGED <<Inputs, Logs, Outcome, handles, drawing, cmap>>

\* line 517
SpacingPage ==
    /\ pc = "spacing_page"
    /\ calls' = Append(calls, "spacing_page")
    /\ LET r == spacing_page(doc) IN doc' = r.doc /\ spacingLog' = r.log
    /\ pc' = "paragraph_page"
    /\ UNCHANGED <<Inputs, Outcome, handles, drawing, cmap,
                   alphaLog, punctLog, Glyphs, arabicLog>>

\* line 518
ParagraphPage ==
    /\ pc = "paragraph_page"
    /\ calls' = Append(calls, "paragraph_page")
    /\ doc' = paragraph_page(doc)
    /\ pc' = "kerning_page"
    /\ UNCHANGED <<Inputs, Logs, Outcome, handles, drawing, cmap>>

\* line 519
KerningPage ==
    /\ pc = "kerning_page"
    /\ calls' = Append(calls, "kerning_page")
    /\ doc' = kerning_page(doc)
    /\ pc' = "glyph_set_page"
    /\ UNCHANGED <<Inputs, Logs, Outcome, handles, drawing, cmap>>

\* line 520, lines 380-398; cmap.keys() at line 396 raises AttributeError when
\* cmap is None, after the first page and its chrome were drawn
GlyphSetPage ==
    /\ pc = "glyph_set_page"
    /\ calls' = Append(calls, "glyph_set_page")
    /\ doc' = glyph_set_first_page(doc)
    /\ IF cmap.is_none
       THEN pc' = "raised" /\ UNCHANGED Glyphs
       ELSE /\ codepoints' = sorted(cmap.keys)
            /\ gi' = 0
            /\ gx' = x_start
            /\ gy' = y_start
            /\ page_num' = start_page
            /\ cells' = <<>>
            /\ pc' = "glyph_loop"
    /\ UNCHANGED <<Inputs, Outcome, handles, drawing, cmap,
                   alphaLog, punctLog, spacingLog, arabicLog>>

\* lines 400-445: one iteration of for i, cp in enumerate(codepoints)
GlyphCell ==
    /\ pc = "glyph_loop"
    /\ gi < Len(codepoints)
    /\ LET r == glyph_cell(codepoints[gi + 1], gx, gy, page_num, doc)
       IN  /\ cells' = Append(cells, r.cell)
           /\ gx' = r.x
           /\ gy' = r.y
           /\ page_num' = r.page_num
           /\ doc' = r.doc
    /\ gi' = gi + 1
    /\ UNCHANGED <<Inputs, Outcome, calls, handles, drawing, cmap, pc, codepoints,
                   alphaLog, punctLog, spacingLog, arabicLog>>

\* line 447: return page_num
GlyphSetReturn ==
    /\ pc = "glyph_loop"
    /\ gi >= Len(codepoints)
    /\ pc' = "arabic_page"
    /\ UNCHANGED <<Inputs, Logs, Outcome, calls, handles, drawing, cmap, doc>>

\* line 521
ArabicPage ==
    /\ pc = "arabic_page"
    /\ calls' = Append(calls, "arabic_page")
    /\ LET r == arabic_page(doc, cmap.keys) IN doc' = r.doc /\ arabicLog' = r.log
    /\ pc' = "saveImage"
    /\ UNCHANGED <<Inputs, Outcome, handles, drawing, cmap,
                   alphaLog, punctLog, spacingLog, Glyphs>>

\* lines 524-525: db.pageCount(), db.saveImage(); saveImage raises when the
\* destination cannot be written
SaveImage ==
    /\ pc = "saveImage"
    /\ calls' = Append(calls, "saveImage")
    /\ total_pages' = Len(doc)
    /\ IF fault = "outputUnwritable"
       THEN pc' = "raised" /\ saved' = saved
       ELSE pc' = "endDrawing" /\ saved' = TRUE
    /\ UNCHANGED <<Inputs, Logs, handles, drawing, cmap, doc, result, exitCode>>

\* lines 526-531
EndDrawing ==
    /\ pc = "endDrawing"
    /\ calls' = Append(calls, "endDrawing")
    /\ drawing' = "ended"
    /\ result' = "True"
    /\ pc' = "returned"
    /\ UNCHANGED <<Inputs, Logs, handles, cmap, doc, total_pages, saved, exitCode>>

\* lines 545-546: sys.exit(0 if success else 1)
Exit ==
    /\ pc = "returned"
    /\ exitCode' = IF result = "True" THEN 0 ELSE 1
    /\ pc' = "exited"
    /\ UNCHANGED <<Inputs, Logs, calls, handles, drawing, cmap, doc,
                   total_pages, saved, result>>

\* an exception nothing catches ends the process with status 1
UncaughtException ==
    /\ pc = "raised"
    /\ exitCode' = 1
    /\ pc' = "exited"
    /\ UNCHANGED <<Inputs, Logs, calls, handles, drawing, cmap, doc,
                   total_pages, saved, result>>

Next ==
    \/ CheckFont
    \/ GetFontInfo
    \/ GetCmap
    \/ NewDrawing
    \/ TitlePage
    \/ AlphabetPage
    \/ NumeralsPage
    \/ WaterfallPage
    \/ SpacingPage
    \/ ParagraphPage
    \/ KerningPage
    \/ GlyphSetPage
    \/ GlyphCell
    \/ GlyphSetReturn
    \/ ArabicPage
    \/ SaveImage
    \/ EndDrawing
    \/ Exit
    \/ UncaughtException

Spec == Init /\ [][Next]_vars

----------------------------------------------------------------------------
(* Properties *)

Exited == pc = "exited"
Succeeded == Exited /\ result = "True"
Ran(step) == \E i \in 1..Len(calls) : calls[i] = step

PagesOf(tmpl) == {i \in 1..Len(doc) : doc[i].tmpl = tmpl}

\* C1 (as stated): a run that succeeds on a font with a non-empty character
\* map reports a document of at least 9 pages.
C1_AtLeastNinePages == (Succeeded /\ fontKeys # <<>>) => total_pages >= 9

\* C1 (amended): a run that succeeds reports a document of at least 8 pages,
\* one for each of the eight templates that always open a page; the page count
\* reported is the number of pages of the document.
C1_AtLeastEightPages ==
    Succeeded => total_pages >= 8 /\ total_pages = Len(doc)

C1_EightPageRun ==
    Succeeded /\ fontKeys # <<>> /\ total_pages = 8 /\ PagesOf("arabic") = {}

\* C2 (as stated): no line of the Spacing Proof is drawn shorter than
\* min(len(input), 10) characters.
C2_NeverBelowMinLength ==
    \A i \in 1..Len(spacingLog) :
        Len(spacingLog[i].out) >= Min(Len(spacingLog[i].line), min_length)

\* C2 (amended): no line of the Spacing Proof is drawn shorter than
\* min(len(input), 9) characters, one less than the loop's length guard.
C2_NeverBelowMinLengthLessOne ==
    \A i \in 1..Len(spacingLog) :
        Len(spacingLog[i].out) >= Min(Len(spacingLog[i].line), min_length - 1)

C2_TruncatedToFloor ==
    /\ Ran("spacing_page")
    /\ \E i \in 1..Len(spacingLog) :
          /\ Len(spacingLog[i].out) = min_length - 1
          /\ Len(spacingLog[i].line) > min_length

\* C3: with a font path that does not exist, no step of the success path is
\* ever executed, no font handle or drawing is opened, no page is drawn and no
\* output is written; generate_proof returns False and the process exits 1.
C3_FontNotFound ==
    ~fontExists =>
        /\ calls = <<>>
        /\ handles = 0
        /\ drawing = "none"
        /\ doc = <<>>
        /\ ~saved
        /\ pc \in {"start", "returned", "exited"}
        /\ pc \in {"returned", "exited"} => result = "False"
        /\ Exited => exitCode = 1

C3_MissingFontExit == ~fontExists /\ Exited /\ exitCode = 1 /\ result = "False"

\* C4: no run ends with a font handle still open or a drawing not ended.
C4_ReleasedOnEveryExit == Exited => handles = 0 /\ drawing # "open"

\* The grid of glyph_set_page is complete
GridDone == Ran("glyph_set_page") /\ pc # "glyph_loop" /\ ~cmap.is_none

\* cell a is drawn before cell b in reading order: page, then row, then column
Before(a, b) ==
    \/ a.page < b.page
    \/ a.page = b.page /\ a.y > b.y
    \/ a.page = b.page /\ a.y = b.y /\ a.x < b.x

RECURSIVE HexValue(_)
HexValue(s) ==
    IF s = <<>> THEN 0
    ELSE 16 * HexValue(SubSeq(s, 1, Len(s) - 1))
         + ((CHOOSE k \in 1..16 : hex_digits[k] = s[Len(s)]) - 1)

LabelOk(c) ==
    /\ Len(c.label) >= 4
    /\ \A k \in 1..Len(c.label) : c.label[k] \in Range(hex_digits)
    /\ Len(c.label) > 4 => c.label[1] # "0"
    /\ HexValue(c.label) = c.cp

\* C5: the cells of the Character Set grid are drawn in strictly increasing
\* codepoint order and in reading order over columns, rows and pages, each
\* labelled with its codepoint in uppercase hexadecimal padded to 4 digits;
\* when the grid is complete there is exactly one cell per codepoint of the
\* character map.
C5_GridEnumeratesCmap ==
    /\ \A i \in 1..(Len(cells) - 1) :
          /\ cells[i].cp < cells[i + 1].cp
          /\ Before(cells[i], cells[i + 1])
    /\ \A i \in 1..Len(cells) :
          /\ LabelOk(cells[i])
          /\ doc[cells[i].page].tmpl = "glyph_set"
    /\ GridDone =>
          /\ Len(cells) = Len(cmap.keys)
          /\ {cells[i].cp : i \in 1..Len(cells)} = Range(cmap.keys)

C5_GridOverTwoPages ==
    /\ GridDone
    /\ Len(cells) > GridCells
    /\ cells[1].page < cells[Len(cells)].page
    /\ cmap.keys[1] > cmap.keys[2]

\* C6: every page but the title page has its header and its footer, drawn
\* before any body content of the page, and the title page has neither.
C6_HeaderAndFooter ==
    \A i \in 1..Len(doc) :
        IF doc[i].tmpl = "title"
        THEN doc[i].header = "" /\ ~doc[i].footer
        ELSE doc[i].header # "" /\ doc[i].footer /\ ~doc[i].bare

C6_ContinuedGridPage ==
    /\ Succeeded
    /\ \E i \in 1..Len(doc) :
          /\ doc[i].header = "Character Set (page N)"
          /\ doc[i].num = 2
          /\ doc[i].body > 0
    /\ doc[1].tmpl = "title" /\ doc[1].body > 0

\* the codepoints of the map inside U+0600..U+06FF, ascending
ArabicBlock(keys) ==
    sorted(SelectSeq(keys, LAMBDA cp : 1536 <= cp /\ cp <= 1791))

\* C7: with n codepoints of the map in U+0600..U+06FF, arabic_page opens no
\* page when n = 0 and one page when n >= 1, and draws as samples the first
\* min(n, 28) of them and then the next up to 28.
C7_ArabicSamples ==
    Ran("arabic_page") =>
        LET blk == ArabicBlock(cmap.keys)
            n == Len(blk)
            first == SubSeq(blk, 1, Min(n, 28))
            second == SubSeq(blk, 29, Min(n, 56))
            drawn == SelectSeq(arabicLog, LAMBDA e : e.size = arabic_sizes[1])
        IN  /\ Cardinality(PagesOf("arabic")) = (IF n = 0 THEN 0 ELSE 1)
            /\ n >= 1 =>
                  /\ Len(drawn) = (IF n > 28 THEN 2 ELSE 1)
                  /\ drawn[1].s = first
                  /\ n > 28 => drawn[2].s = second

Events == alphaLog \o punctLog

\* C8: a line of N characters no wider than the page less both margins is
\* drawn once and unchanged; a wider one is drawn as exactly two lines, the
\* first N \div 2 characters and then the rest.
C8_FitOrSplit ==
    \A i \in 1..Len(Events) :
        LET e == Events[i]
        IN  IF Len(e.s) * adv * e.size <= (PAGE_WIDTH - 2 * MARGIN) * 1000
            THEN Len(e.lines) = 1 /\ e.lines[1].s = e.s
            ELSE /\ Len(e.lines) = 2
                 /\ Len(e.lines[1].s) = Len(e.s) \div 2
                 /\ e.lines[1].s \o e.lines[2].s = e.s

C8_SplitAndUnsplit ==
    /\ Ran("numerals_page")
    /\ \E i \in 1..Len(alphaLog) :
          /\ Len(alphaLog[i].lines) = 2
          /\ TooWide(alphaLog[i].lines[1].s, alphaLog[i].size)
    /\ \E i \in 1..Len(punctLog) : Len(punctLog[i].lines) = 1
    /\ \E i \in 1..Len(punctLog) : Len(punctLog[i].lines) = 2

\* C9: for a map of N >= 1 codepoints the grid opens ceil(N / 168) pages, each
\* holding at least one cell, and returns start_page + pages opened - 1.
C9_PagesAsNeeded ==
    (GridDone /\ Len(cmap.keys) >= 1) =>
        LET opened == Cardinality(PagesOf("glyph_set"))
        IN  /\ opened = (Len(cmap.keys) + GridCells - 1) \div GridCells
            /\ \A i \in PagesOf("glyph_set") : doc[i].body > 0
            /\ page_num = start_page + opened - 1

\* C10: alphabet_page opens one page and draws no line with its cursor below
\* the bottom margin.
C10_AboveBottomMargin ==
    Ran("alphabet_page") =>
        /\ Cardinality(PagesOf("alphabet")) = 1
        /\ \A i \in 1..Len(alphaLog) :
              \A k \in 1..Len(alphaLog[i].lines) :
                  alphaLog[i].lines[k].y >= T(MARGIN)

====
